---- MODULE Spec2Model ----
(***************************************************************************)
(* Model of src/LinkedList.py: a singly linked list of _Node cells, the    *)
(* LinkedList handle (_first, _length) and the operations on it.           *)
(*                                                                         *)
(* The heap is the pair of functions item/next over node identities.  A    *)
(* node no live reference reaches is reclaimed, as the Python runtime      *)
(* does, and the live nodes are numbered in the order the handles reach    *)
(* them: the program never observes a node's identity, only whether two    *)
(* references are to the same node.                                        *)
(* Lists are held in the program variables of Handles; an assignment such  *)
(* as b = a.copy() rebinds a handle.  Every method is one step; last holds *)
(* the name, the outcome and the returned value of the latest call.  The   *)
(* for-loop of extend and + need not terminate: a call whose iterator is   *)
(* still on a node after yielding as many items as other held elements     *)
(* leaves the program inside the call (pc = "looping").                    *)
(* iter is the LinkedListIterator the program holds, if it has made one:   *)
(* its _curr, and how many times its __next__ has raised StopIteration.    *)
(***************************************************************************)
EXTENDS Integers, Sequences, FiniteSets

\* ---- bounds -------------------------------------------------------------
MaxNodes == 3
MaxItem == 2
MaxIndex == 3
MaxLength == 3
MaxDeficit == 1
MaxStops == 2

Nodes == 1..MaxNodes
Items == 1..MaxItem
Indices == (0 - MaxIndex)..MaxIndex
HandleOrder == <<"a", "b">>
Handles == {HandleOrder[k] : k \in 1..Len(HandleOrder)}
Nil == 0
NoItem == 0

VARIABLES item, next, first, length, pc, last, iter

vars == <<item, next, first, length, pc, last, iter>>

\* ---- helpers over the node chain ------------------------------------------
SetMin(S) == CHOOSE m \in S : \A k \in S : m <= k

RECURSIVE SeqOfSet(_)
SeqOfSet(S) == IF S = {} THEN << >> ELSE <<SetMin(S)>> \o SeqOfSet(S \ {SetMin(S)})

\* the nodes met walking from curr along nx, in order (fuel stops a walk
\* that would not end)
RECURSIVE ChainFrom(_, _, _)
ChainFrom(nx, curr, fuel) ==
  IF curr = Nil \/ fuel = 0 THEN << >>
  ELSE <<curr>> \o ChainFrom(nx, nx[curr], fuel - 1)

Chain(nx, f) == ChainFrom(nx, f, MaxNodes + 1)

ChainSet(nx, f) == LET c == Chain(nx, f) IN {c[k] : k \in 1..Len(c)}

\* LinkedList.to_list
to_list(it, nx, f) == LET c == Chain(nx, f) IN [k \in 1..Len(c) |-> it[c[k]]]

\* every node a live reference reaches
Reach(nx, roots) == UNION {ChainSet(nx, r) : r \in roots}

Roots(fs) == {fs[h] : h \in Handles} \cup {iter.curr}

\* the live nodes, in the order the handles reach them
RECURSIVE LiveOrder(_, _, _, _)
LiveOrder(nx, fs, hs, seen) ==
  IF hs = << >> THEN seen
  ELSE LiveOrder(nx, fs, Tail(hs),
                 seen \o SelectSeq(Chain(nx, fs[Head(hs)]),
                                   LAMBDA n : \A k \in 1..Len(seen) : seen[k] # n))

PosIn(order, n) == IF n = Nil THEN Nil ELSE CHOOSE k \in 1..Len(order) : order[k] = n

\* reclaim the nodes nothing refers to any more and number the live ones
\* (those only the iterator's cursor c reaches come after the handles')
Normalize(it, nx, fs, c) ==
  LET held == LiveOrder(nx, fs, HandleOrder, << >>)
      order == held \o SelectSeq(Chain(nx, c),
                                 LAMBDA n : \A k \in 1..Len(held) : held[k] # n)
  IN [item |-> [n \in Nodes |-> IF n <= Len(order) THEN it[order[n]] ELSE NoItem],
      next |-> [n \in Nodes |-> IF n <= Len(order) THEN PosIn(order, nx[order[n]]) ELSE Nil],
      first |-> [h \in Handles |-> PosIn(order, fs[h])],
      curr |-> PosIn(order, c)]

\* the heap after a call that leaves the iterator on c, with stops raised
StoreIter(it, nx, fs, c, made, stops) ==
  LET g == Normalize(it, nx, fs, c)
  IN /\ item' = g.item /\ next' = g.next /\ first' = g.first
     /\ iter' = [curr |-> g.curr, made |-> made, stops |-> stops]

\* the heap after a call on a list: the iterator is where it was
Store(it, nx, fs) == StoreIter(it, nx, fs, iter.curr, iter.made, iter.stops)

\* _Node(item, next): the identities free for a new node
FreeNodes(nx, roots) == Nodes \ Reach(nx, roots)

Done(op, status, ret) == [op |-> op, status |-> status, ret |-> ret]

Idle == pc = "idle"

\* ---- LinkedList.append ----------------------------------------------------
\* the node the while loop of append stops on
RECURSIVE LastNode(_, _)
LastNode(nx, curr) == IF nx[curr] # Nil THEN LastNode(nx, nx[curr]) ELSE curr

\* append on a list whose head is f: the new heap and head
AppendTo(it, nx, f, x, new) ==
  [item |-> [it EXCEPT ![new] = x],
   next |-> IF f = Nil THEN [nx EXCEPT ![new] = Nil]
            ELSE [[nx EXCEPT ![new] = Nil] EXCEPT ![LastNode(nx, f)] = new],
   first |-> IF f = Nil THEN new ELSE f]

append(h, x) ==
  /\ Idle
  /\ length[h] < MaxLength
  /\ FreeNodes(next, Roots(first)) # {}
  /\ length' = [length EXCEPT ![h] = length[h] + 1]
  /\ last' = Done("append", "ok", NoItem)
  /\ UNCHANGED pc
  /\ LET new == SetMin(FreeNodes(next, Roots(first)))
         r == AppendTo(item, next, first[h], x, new)
     IN Store(r.item, r.next, [first EXCEPT ![h] = r.first])

\* ---- LinkedList.__init__ --------------------------------------------------
\* the loop as it would be taking the items from the end of the sequence
RECURSIVE BuildFrom_FromEnd(_, _, _, _, _)
BuildFrom_FromEnd(it, nx, f, items, free) ==
  IF items = << >> THEN [item |-> it, next |-> nx, first |-> f]
  ELSE LET r == AppendTo(it, nx, f, items[Len(items)], Head(free))
       IN BuildFrom_FromEnd(r.item, r.next, r.first,
                            SubSeq(items, 1, Len(items) - 1), Tail(free))

\* h = LinkedList(items): append each item to a list that starts empty
RECURSIVE BuildFrom(_, _, _, _, _)
BuildFrom(it, nx, f, items, free) ==
  IF items = << >> THEN [item |-> it, next |-> nx, first |-> f]
  ELSE LET r == AppendTo(it, nx, f, Head(items), Head(free))
       IN BuildFrom(r.item, r.next, r.first, Tail(items), Tail(free))

SeqsUpTo(n) == UNION {[1..k -> Items] : k \in 0..n}

Construct(h, items) ==
  /\ Idle
  /\ length' = [length EXCEPT ![h] = Len(items)]
  /\ last' = Done("init", "ok", NoItem)
  /\ UNCHANGED pc
  /\ LET others == {first[g] : g \in Handles \ {h}} \cup {iter.curr}
         free == SeqOfSet(FreeNodes(next, others))
     IN /\ Len(items) <= Len(free)
        /\ LET r == BuildFrom(item, next, Nil, items, free)
           IN Store(r.item, r.next, [first EXCEPT ![h] = r.first])

\* ---- negative indices ---------------------------------------------------
\* "if i < 0: i = self._length + i"
Adjust(len, i) == IF i < 0 THEN len + i ELSE i

\* ---- LinkedList.__getitem__ -----------------------------------------------
\* the node the while loop stops on (Nil when it runs off the chain)
RECURSIVE GetWalk(_, _, _, _)
GetWalk(nx, curr, curr_index, i) ==
  IF curr # Nil /\ curr_index # i THEN GetWalk(nx, nx[curr], curr_index + 1, i)
  ELSE curr

\* the node __getitem__ ends on for a list with head f and cached length len
GetNodeIn(nx, f, len, i) == GetWalk(nx, f, 0, Adjust(len, i))

GetNode(h, i) == GetNodeIn(next, first[h], length[h], i)

getitem(h, i) ==
  /\ Idle
  /\ last' = IF GetNode(h, i) = Nil
             THEN Done("get", "IndexError", NoItem)
             ELSE Done("get", "ok", item[GetNode(h, i)])
  /\ UNCHANGED <<item, next, first, length, pc, iter>>

\* ---- LinkedList.__setitem__ -----------------------------------------------
RECURSIVE SetWalk(_, _, _, _)
SetWalk(nx, curr, index_so_far, i) ==
  IF curr = Nil THEN Nil
  ELSE IF index_so_far = i THEN curr
  ELSE SetWalk(nx, nx[curr], index_so_far + 1, i)

SetNode(h, i) == SetWalk(next, first[h], 0, Adjust(length[h], i))

setitem(h, i, x) ==
  /\ Idle
  /\ IF SetNode(h, i) = Nil
     THEN /\ last' = Done("set", "IndexError", NoItem)
          /\ UNCHANGED item
     ELSE /\ item' = [item EXCEPT ![SetNode(h, i)] = x]
          /\ last' = Done("set", "ok", NoItem)
  /\ UNCHANGED <<next, first, length, pc, iter>>

\* ---- LinkedList.insert ----------------------------------------------------
RECURSIVE InsertWalk(_, _, _, _)
InsertWalk(nx, curr, curr_index, i) ==
  IF curr # Nil /\ curr_index # i - 1
  THEN InsertWalk(nx, nx[curr], curr_index + 1, i)
  ELSE curr

InsertPred(h, i) == InsertWalk(next, first[h], 0, Adjust(length[h], i))

insert(h, i, x) ==
  /\ Idle
  /\ IF Adjust(length[h], i) = 0
     THEN /\ length[h] < MaxLength
          /\ FreeNodes(next, Roots(first)) # {}
          /\ length' = [length EXCEPT ![h] = length[h] + 1]
          /\ last' = Done("insert", "ok", NoItem)
          /\ LET new == SetMin(FreeNodes(next, Roots(first)))
             IN Store([item EXCEPT ![new] = x], [next EXCEPT ![new] = first[h]],
                      [first EXCEPT ![h] = new])
     ELSE IF InsertPred(h, i) = Nil
     THEN /\ last' = Done("insert", "IndexError", NoItem)
          /\ UNCHANGED <<item, next, first, length, iter>>
     ELSE /\ length[h] < MaxLength
          /\ FreeNodes(next, Roots(first)) # {}
          /\ length' = [length EXCEPT ![h] = length[h] + 1]
          /\ last' = Done("insert", "ok", NoItem)
          /\ LET new == SetMin(FreeNodes(next, Roots(first)))
                 curr == InsertPred(h, i)
             IN Store([item EXCEPT ![new] = x],
                      [[next EXCEPT ![new] = next[curr]] EXCEPT ![curr] = new],
                      first)
  /\ UNCHANGED pc

\* ---- LinkedList.pop -------------------------------------------------------
\* the node on which "curr_index == i - 1" holds (Nil when the loop ends
\* without meeting it)
RECURSIVE PopWalk(_, _, _, _)
PopWalk(nx, curr, curr_index, i) ==
  IF curr = Nil THEN Nil
  ELSE IF curr_index = i - 1 THEN curr
  ELSE PopWalk(nx, nx[curr], curr_index + 1, i)

PopPred(h, i) == PopWalk(next, first[h], 0, Adjust(length[h], i))

\* whether pop(i) raises IndexError
PopFails(h, i) ==
  IF Adjust(length[h], i) = 0 THEN first[h] = Nil
  ELSE PopPred(h, i) = Nil \/ next[PopPred(h, i)] = Nil

\* the head as it would be with "self._first = self._first.next" left out
PopHead_KeepsHead(h, i) == first[h]

\* a pop that found its node: the head it leaves, the links it leaves and
\* the item it returns
PopHead(h, i) == IF Adjust(length[h], i) = 0 THEN next[first[h]] ELSE first[h]

PopLinks(h, i) ==
  IF Adjust(length[h], i) = 0 THEN next
  ELSE [next EXCEPT ![PopPred(h, i)] = next[next[PopPred(h, i)]]]

PopItem(h, i) ==
  IF Adjust(length[h], i) = 0 THEN item[first[h]] ELSE item[next[PopPred(h, i)]]

\* the splice as it would be with "self._length -= 1" left out
PopSplice_KeepsLength(h, i) ==
  /\ length[h] > 0 - MaxDeficit
  /\ last' = Done("pop", "ok", PopItem(h, i))
  /\ UNCHANGED length
  /\ Store(item, PopLinks(h, i), [first EXCEPT ![h] = PopHead(h, i)])

PopSplice(h, i) ==
  /\ length[h] > 0 - MaxDeficit
  /\ last' = Done("pop", "ok", PopItem(h, i))
  /\ length' = [length EXCEPT ![h] = length[h] - 1]
  /\ Store(item, PopLinks(h, i), [first EXCEPT ![h] = PopHead(h, i)])

\* pop as it would be with "self._length -= 1" ahead of the index test
pop_LengthFirst(h, i) ==
  /\ Idle
  /\ IF PopFails(h, i)
     THEN /\ length[h] > 0 - MaxDeficit
          /\ last' = Done("pop", "IndexError", NoItem)
          /\ length' = [length EXCEPT ![h] = length[h] - 1]
          /\ UNCHANGED <<item, next, first, iter>>
     ELSE PopSplice(h, i)
  /\ UNCHANGED pc

pop(h, i) ==
  /\ Idle
  /\ IF PopFails(h, i)
     THEN /\ last' = Done("pop", "IndexError", NoItem)
          /\ UNCHANGED <<item, next, first, length, iter>>
     ELSE PopSplice(h, i)
  /\ UNCHANGED pc

\* ---- LinkedList.remove ----------------------------------------------------
\* the walk as it would be with "curr.item == item" for "curr.next.item == item"
RECURSIVE RemoveWalk_TestsCurr(_, _, _, _)
RemoveWalk_TestsCurr(it, nx, curr, x) ==
  IF curr = Nil THEN Nil
  ELSE IF nx[curr] # Nil /\ it[curr] = x THEN curr
  ELSE RemoveWalk_TestsCurr(it, nx, nx[curr], x)

\* the node whose successor holds x (Nil when the loop ends without one)
RECURSIVE RemoveWalk(_, _, _, _)
RemoveWalk(it, nx, curr, x) ==
  IF curr = Nil THEN Nil
  ELSE IF nx[curr] # Nil /\ it[nx[curr]] = x THEN curr
  ELSE RemoveWalk(it, nx, nx[curr], x)

\* whether remove(x) raises ValueError
RemoveFails(h, x) ==
  IF first[h] = Nil THEN TRUE
  ELSE IF item[first[h]] = x THEN FALSE
  ELSE RemoveWalk(item, next, first[h], x) = Nil

remove(h, x) ==
  /\ Idle
  /\ IF RemoveFails(h, x)
     THEN /\ last' = Done("remove", "ValueError", NoItem)
          /\ UNCHANGED <<item, next, first, length, iter>>
     ELSE /\ length[h] > 0 - MaxDeficit
          /\ length' = [length EXCEPT ![h] = length[h] - 1]
          /\ last' = Done("remove", "ok", NoItem)
          /\ LET headHit == item[first[h]] = x
                 curr == RemoveWalk(item, next, first[h], x)
                 f == IF headHit THEN next[first[h]] ELSE first[h]
                 nx == IF headHit THEN next
                       ELSE [next EXCEPT ![curr] = next[next[curr]]]
             IN Store(item, nx, [first EXCEPT ![h] = f])
  /\ UNCHANGED pc

\* ---- LinkedList.index -----------------------------------------------------
\* the index returned, or -1 for ValueError
RECURSIVE IndexWalk(_, _, _, _, _)
IndexWalk(it, nx, curr, index_so_far, x) ==
  IF curr = Nil THEN 0 - 1
  ELSE IF it[curr] = x THEN index_so_far
  ELSE IndexWalk(it, nx, nx[curr], index_so_far + 1, x)

IndexOf(h, x) == IndexWalk(item, next, first[h], 0, x)

index(h, x) ==
  /\ Idle
  /\ last' = IF IndexOf(h, x) < 0
             THEN Done("index", "ValueError", NoItem)
             ELSE Done("index", "ok", IndexOf(h, x))
  /\ UNCHANGED <<item, next, first, length, pc, iter>>

\* ---- LinkedList.invert ----------------------------------------------------
\* the walk as it would be with "self._first = curr" for "self._first = previous"
RECURSIVE InvertWalk_HeadIsCurr(_, _, _)
InvertWalk_HeadIsCurr(nx, curr, previous) ==
  IF curr = Nil THEN [next |-> nx, first |-> curr]
  ELSE InvertWalk_HeadIsCurr([nx EXCEPT ![curr] = previous], nx[curr], curr)

\* the walk as it would be with "curr.next = previous" skipped on the first
\* node, which then keeps its link into the reversed chain
RECURSIVE InvertWalk_KeepsFirstLink(_, _, _)
InvertWalk_KeepsFirstLink(nx, curr, previous) ==
  IF curr = Nil THEN [next |-> nx, first |-> previous]
  ELSE InvertWalk_KeepsFirstLink(IF previous = Nil THEN nx
                                 ELSE [nx EXCEPT ![curr] = previous], nx[curr], curr)

RECURSIVE InvertWalk(_, _, _)
InvertWalk(nx, curr, previous) ==
  IF curr = Nil THEN [next |-> nx, first |-> previous]
  ELSE InvertWalk([nx EXCEPT ![curr] = previous], nx[curr], curr)

invert(h) ==
  /\ Idle
  /\ last' = Done("invert", "ok", NoItem)
  /\ UNCHANGED <<length, pc>>
  /\ LET r == InvertWalk(next, first[h], Nil)
     IN Store(item, r.next, [first EXCEPT ![h] = r.first])

\* ---- LinkedList.sort ------------------------------------------------------
\* the insertion as it would be with the reverse flag ignored
RECURSIVE InsertSorted_Ascending(_, _, _)
InsertSorted_Ascending(s, x, reverse) ==
  IF s = << >> THEN <<x>>
  ELSE IF x < Head(s) THEN <<x>> \o s
  ELSE <<Head(s)>> \o InsertSorted_Ascending(Tail(s), x, reverse)

\* list.sort(reverse=...): a stable insertion of each element in turn
RECURSIVE InsertSorted(_, _, _)
InsertSorted(s, x, reverse) ==
  IF s = << >> THEN <<x>>
  ELSE IF (IF reverse THEN Head(s) < x ELSE x < Head(s)) THEN <<x>> \o s
  ELSE <<Head(s)>> \o InsertSorted(Tail(s), x, reverse)

RECURSIVE SortedList(_, _)
SortedList(s, reverse) ==
  IF s = << >> THEN << >>
  ELSE InsertSorted(SortedList(SubSeq(s, 1, Len(s) - 1), reverse), s[Len(s)], reverse)

sort(h, reverse) ==
  /\ Idle
  /\ last' = Done("sort", "ok", NoItem)
  /\ UNCHANGED <<length, pc>>
  /\ LET lst == SortedList(to_list(item, next, first[h]), reverse)
         others == {first[g] : g \in Handles \ {h}} \cup {iter.curr}
         free == SeqOfSet(FreeNodes(next, others))
     IN /\ Len(lst) <= Len(free)
        /\ LET r == BuildFrom(item, next, Nil, lst, free)
           IN Store(r.item, r.next, [first EXCEPT ![h] = r.first])

\* ---- LinkedList.copy ------------------------------------------------------
\* dst = h.copy(): LinkedList(first=h._first), whose _length starts at 0
copy(dst, h) ==
  /\ Idle
  /\ length' = [length EXCEPT ![dst] = 0]
  /\ last' = Done("copy", "ok", NoItem)
  /\ UNCHANGED pc
  /\ Store(item, next, [first EXCEPT ![dst] = first[h]])

\* ---- LinkedList.extend / LinkedList.__add__ -------------------------------
\* "for item in other: copy.append(item)": LinkedListIterator.__next__
\* yields curr's item and moves to curr.next, then copy.append(item); the
\* loop ends when curr is Nil (StopIteration).  free lists the identities
\* left for new nodes; the run stops early when they are used up.
RECURSIVE LoopRun(_, _, _, _, _, _)
LoopRun(it, nx, copyFirst, copyLength, curr, free) ==
  IF curr = Nil \/ free = << >>
  THEN [item |-> it, next |-> nx, first |-> copyFirst, length |-> copyLength,
        curr |-> curr]
  ELSE LET r == AppendTo(it, nx, copyFirst, it[curr], Head(free))
       IN LoopRun(r.item, r.next, r.first, copyLength + 1, nx[curr], Tail(free))

\* the loop as it would be were an empty self to take other's nodes as they
\* are instead of appending other's items one by one
CopyAndLoop_AdoptsOther(self, other) ==
  IF first[self] = Nil
  THEN [item |-> item, next |-> next, first |-> first[other],
        length |-> Len(Chain(next, first[other])), curr |-> Nil]
  ELSE LoopRun(item, next, first[self], 0, first[other],
               SeqOfSet(FreeNodes(next, Roots(first))))

\* copy = self.copy() (LinkedList(first=self._first), _length 0), then the loop
CopyAndLoop(self, other) ==
  LoopRun(item, next, first[self], 0, first[other],
          SeqOfSet(FreeNodes(next, Roots(first))))

\* the loop goes on past other's elements: the __next__ that yields the last
\* of as many items as other held (or a later one) leaves _curr on a node
StillLooping(r, other) ==
  /\ r.curr # Nil
  /\ r.length + 1 >= Len(to_list(item, next, first[other]))
  /\ r.next[r.curr] # Nil

extend(self, other) ==
  /\ Idle
  /\ LET r == CopyAndLoop(self, other)
     IN \/ /\ r.curr = Nil
           /\ last' = Done("extend", "ok", NoItem)
           /\ UNCHANGED <<length, pc>>
           /\ Store(r.item, r.next, [first EXCEPT ![self] = r.first])
        \/ /\ StillLooping(r, other)
           /\ pc' = "looping"
           /\ last' = Done("extend", "running", NoItem)
           /\ UNCHANGED length
           /\ Store(r.item, r.next, first)

\* dst = self + other
add(dst, self, other) ==
  /\ Idle
  /\ LET r == CopyAndLoop(self, other)
     IN \/ /\ r.curr = Nil
           /\ length' = [length EXCEPT ![dst] = r.length]
           /\ last' = Done("add", "ok", NoItem)
           /\ UNCHANGED pc
           /\ Store(r.item, r.next, [first EXCEPT ![dst] = r.first])
        \/ /\ StillLooping(r, other)
           /\ pc' = "looping"
           /\ last' = Done("add", "running", NoItem)
           /\ UNCHANGED length
           /\ Store(r.item, r.next, first)

\* ---- LinkedList.__eq__ -----------------------------------------------------
\* the walk as it would be were a chain that ends before the other unequal
RECURSIVE EqWalk_EndsTogether(_, _, _, _, _)
EqWalk_EndsTogether(it, nx, curr1, curr2, are_equal) ==
  IF are_equal /\ curr1 # Nil /\ curr2 # Nil
  THEN EqWalk_EndsTogether(it, nx, nx[curr1], nx[curr2], it[curr1] = it[curr2])
  ELSE are_equal /\ curr1 = Nil /\ curr2 = Nil

\* the value of are_equal when the while loop ends
RECURSIVE EqWalk(_, _, _, _, _)
EqWalk(it, nx, curr1, curr2, are_equal) ==
  IF are_equal /\ curr1 # Nil /\ curr2 # Nil
  THEN EqWalk(it, nx, nx[curr1], nx[curr2], it[curr1] = it[curr2])
  ELSE are_equal

\* self == other; the bool returned is recorded as the int it is (True is 1)
eq(self, other) ==
  /\ Idle
  /\ last' = Done("eq", "ok",
                  IF EqWalk(item, next, first[self], first[other], TRUE) THEN 1 ELSE 0)
  /\ UNCHANGED <<item, next, first, length, pc, iter>>

\* ---- LinkedList.__iter__ / LinkedListIterator -----------------------------
\* iter(h): a new LinkedListIterator(h._first) takes the place of the old one
iter_new(h) ==
  /\ Idle
  /\ last' = Done("iter", "ok", NoItem)
  /\ UNCHANGED <<length, pc>>
  /\ StoreIter(item, next, first, first[h], TRUE, 0)

\* __next__ as it would be were the cursor put back on the list's head when
\* it signals exhaustion
iter_next_Restarts ==
  /\ Idle
  /\ iter.made
  /\ IF iter.curr = Nil
     THEN /\ iter.stops < MaxStops
          /\ last' = Done("next", "StopIteration", NoItem)
          /\ StoreIter(item, next, first, first[HandleOrder[1]], TRUE, iter.stops + 1)
     ELSE /\ last' = Done("next", "ok", item[iter.curr])
          /\ StoreIter(item, next, first, next[iter.curr], TRUE, iter.stops)
  /\ UNCHANGED <<length, pc>>

\* LinkedListIterator.__next__
iter_next ==
  /\ Idle
  /\ iter.made
  /\ IF iter.curr = Nil
     THEN /\ iter.stops < MaxStops
          /\ last' = Done("next", "StopIteration", NoItem)
          /\ iter' = [iter EXCEPT !.stops = iter.stops + 1]
          /\ UNCHANGED <<item, next, first>>
     ELSE /\ last' = Done("next", "ok", item[iter.curr])
          /\ StoreIter(item, next, first, next[iter.curr], TRUE, iter.stops)
  /\ UNCHANGED <<length, pc>>

Init ==
  /\ item = [n \in Nodes |-> NoItem]
  /\ next = [n \in Nodes |-> Nil]
  /\ first = [h \in Handles |-> Nil]
  /\ length = [h \in Handles |-> 0]
  /\ pc = "idle"
  /\ last = Done("init", "ok", NoItem)
  /\ iter = [curr |-> Nil, made |-> FALSE, stops |-> 0]

Next ==
  \/ \E h \in Handles, items \in SeqsUpTo(MaxNodes) : Construct(h, items)
  \/ \E h \in Handles, x \in Items : append(h, x)
  \/ \E h \in Handles, i \in Indices : getitem(h, i)
  \/ \E h \in Handles, i \in Indices, x \in Items : setitem(h, i, x)
  \/ \E h \in Handles, i \in Indices, x \in Items : insert(h, i, x)
  \/ \E h \in Handles, i \in Indices : pop(h, i)
  \/ \E h \in Handles, x \in Items : remove(h, x)
  \/ \E h \in Handles, x \in Items : index(h, x)
  \/ \E self \in Handles, other \in Handles : eq(self, other)
  \/ \E h \in Handles : invert(h)
  \/ \E h \in Handles, reverse \in BOOLEAN : sort(h, reverse)
  \/ \E dst \in Handles, h \in Handles : copy(dst, h)
  \/ \E self \in Handles, other \in Handles : extend(self, other)
  \/ \E dst \in Handles, self \in Handles, other \in Handles : add(dst, self, other)

Spec == Init /\ [][Next]_vars

\* a program that holds one list and iterates over it, with any of the
\* list's operations between the calls of __next__
Iterated == {HandleOrder[1]}

NextIter ==
  \/ \E h \in Iterated : iter_new(h)
  \/ iter_next
  \/ \E h \in Iterated, items \in SeqsUpTo(MaxNodes) : Construct(h, items)
  \/ \E h \in Iterated, x \in Items : append(h, x)
  \/ \E h \in Iterated, i \in Indices, x \in Items : setitem(h, i, x)
  \/ \E h \in Iterated, i \in Indices, x \in Items : insert(h, i, x)
  \/ \E h \in Iterated, i \in Indices : pop(h, i)
  \/ \E h \in Iterated, x \in Items : remove(h, x)
  \/ \E h \in Iterated : invert(h)
  \/ \E h \in Iterated, reverse \in BOOLEAN : sort(h, reverse)
  \/ \E h \in Iterated : copy(h, h)
  \/ \E h \in Iterated : extend(h, h)
  \/ \E h \in Iterated : add(h, h, h)

SpecIter == Init /\ [][NextIter]_vars

\* a program whose lists are made by LinkedList(seq) and never passed to
\* copy, extend or +
NextSolo ==
  \/ \E h \in Handles, items \in SeqsUpTo(MaxNodes) : Construct(h, items)
  \/ \E h \in Handles, x \in Items : append(h, x)
  \/ \E h \in Handles, i \in Indices : getitem(h, i)
  \/ \E h \in Handles, i \in Indices, x \in Items : setitem(h, i, x)
  \/ \E h \in Handles, i \in Indices, x \in Items : insert(h, i, x)
  \/ \E h \in Handles, i \in Indices : pop(h, i)
  \/ \E h \in Handles, x \in Items : remove(h, x)
  \/ \E h \in Handles, x \in Items : index(h, x)
  \/ \E self \in Handles, other \in Handles : eq(self, other)
  \/ \E h \in Handles : invert(h)
  \/ \E h \in Handles, reverse \in BOOLEAN : sort(h, reverse)

SpecSolo == Init /\ [][NextSolo]_vars

\* ---- vocabulary of the properties -----------------------------------------
\* the elements a handle holds, before and after a step
Elems(h) == to_list(item, next, first[h])
ElemsAfter(h) == to_list(item', next', first'[h])

Range(s) == {s[k] : k \in 1..Len(s)}
FirstPos(s, x) == CHOOSE k \in 1..Len(s) : s[k] = x /\ \A j \in 1..(k - 1) : s[j] # x
RemoveAt(s, k) == SubSeq(s, 1, k - 1) \o SubSeq(s, k + 1, Len(s))
InsertAt(s, k, x) == SubSeq(s, 1, k - 1) \o <<x>> \o SubSeq(s, k, Len(s))

\* the position an index means on a list of n elements
Position(n, i) == IF i < 0 THEN n + i ELSE i

Errors == {"IndexError", "ValueError"}
Returned == pc' = "idle"
HeapUnchanged == UNCHANGED <<item, next, first, length>>

\* C1: between calls every handle's cached length is the number of nodes
\* reachable from its first node, and is 0 exactly when first is none.
C1_LengthCountsNodes ==
  Idle => \A h \in Handles :
            /\ length[h] = Len(Chain(next, first[h]))
            /\ (length[h] = 0 <=> first[h] = Nil)

\* C2: when self.extend(other) returns, self holds its old elements followed
\* by other's old elements and other holds what it held before.
C2_ExtendKeepsOther ==
  [][\A self \in Handles, other \in Handles :
       (extend(self, other) /\ Returned /\ other # self) =>
         /\ ElemsAfter(self) = Elems(self) \o Elems(other)
         /\ ElemsAfter(other) = Elems(other)]_vars

\* C3: c = a + b holds a's elements followed by b's, and a is left as it was
\* (same elements, same length).
C3_AddKeepsSelf ==
  [][\A dst \in Handles, self \in Handles, other \in Handles :
       (add(dst, self, other) /\ Returned) =>
         /\ ElemsAfter(dst) = Elems(self) \o Elems(other)
         /\ dst # self => /\ ElemsAfter(self) = Elems(self)
                          /\ length'[self] = length[self]]_vars

\* C4: on a list of n elements get(i) returns element i for 0 <= i < n,
\* element n + i for -n <= i < 0, fails with IndexError otherwise, and
\* changes nothing.
C4_GetByPosition ==
  [][\A h \in Handles, i \in Indices :
       getitem(h, i) =>
         LET s == Elems(h)
             j == Position(Len(s), i)
         IN /\ IF 0 <= j /\ j < Len(s)
               THEN last'.status = "ok" /\ last'.ret = s[j + 1]
               ELSE last'.status = "IndexError"
            /\ HeapUnchanged]_vars

\* C5: L.append(x) raises len(L) by exactly 1 and then L.get(len(L) - 1) is x.
C5_AppendThenGetLast ==
  [][\A h \in Handles, x \in Items :
       append(h, x) =>
         /\ length'[h] = length[h] + 1
         /\ LET n == GetNodeIn(next', first'[h], length'[h], length'[h] - 1)
            IN n # Nil /\ item'[n] = x]_vars

\* C6: for 0 <= i < len(L), L.set(i, v) succeeds, L.get(i) then returns v,
\* len(L) is unchanged and every other position keeps its item.
C6_SetThenGet ==
  [][\A h \in Handles, i \in Indices, v \in Items :
       (setitem(h, i, v) /\ 0 <= i /\ i < length[h]) =>
         /\ last'.status = "ok"
         /\ LET n == GetNodeIn(next', first'[h], length'[h], i)
            IN n # Nil /\ item'[n] = v
         /\ length' = length
         /\ Len(ElemsAfter(h)) = Len(Elems(h))
         /\ \A k \in 1..Len(Elems(h)) : k # i + 1 => ElemsAfter(h)[k] = Elems(h)[k]]_vars

\* C7: on a list of n elements with j the position of i: for 0 <= j < n
\* pop(i) returns element j, leaves the list without exactly that position
\* and lowers the length by 1; otherwise it fails with IndexError.
C7_PopByPosition ==
  [][\A h \in Handles, i \in Indices :
       pop(h, i) =>
         LET s == Elems(h)
             j == Position(Len(s), i)
         IN IF 0 <= j /\ j < Len(s)
            THEN /\ last'.status = "ok" /\ last'.ret = s[j + 1]
                 /\ ElemsAfter(h) = RemoveAt(s, j + 1)
                 /\ length'[h] = length[h] - 1
            ELSE last'.status = "IndexError"]_vars

\* C8: on a list of n elements with j the position of i: for 0 <= j <= n
\* insert(i, x) puts x at position j, shifts the elements from j on by one
\* and raises the length by 1; otherwise it fails with IndexError and the
\* length stays.
C8_InsertByPosition ==
  [][\A h \in Handles, i \in Indices, x \in Items :
       insert(h, i, x) =>
         LET s == Elems(h)
             j == Position(Len(s), i)
         IN IF 0 <= j /\ j <= Len(s)
            THEN /\ last'.status = "ok"
                 /\ ElemsAfter(h) = InsertAt(s, j + 1, x)
                 /\ length'[h] = length[h] + 1
            ELSE last'.status = "IndexError" /\ length' = length]_vars

\* C9: remove(x) deletes the element at position index(x), the first
\* occurrence, keeps every other element in order and lowers the length by
\* 1; when x does not occur, remove(x) and index(x) fail with ValueError.
C9_RemoveFirstOccurrence ==
  [][\A h \in Handles, x \in Items :
       /\ (last'.op = "remove" /\ remove(h, x)) =>
            IF x \in Range(Elems(h))
            THEN /\ last'.status = "ok"
                 /\ IndexOf(h, x) = FirstPos(Elems(h), x) - 1
                 /\ ElemsAfter(h) = RemoveAt(Elems(h), IndexOf(h, x) + 1)
                 /\ length'[h] = length[h] - 1
            ELSE last'.status = "ValueError"
       /\ (last'.op = "index" /\ index(h, x)) =>
            IF x \in Range(Elems(h))
            THEN last'.status = "ok" /\ last'.ret = FirstPos(Elems(h), x) - 1
            ELSE last'.status = "ValueError"]_vars

\* a remove that succeeded on a list in which the item occurred again later
C9_Witness ==
  /\ last.op = "remove" /\ last.status = "ok"
  /\ \E h \in Handles : Len(Elems(h)) = 2 /\ Elems(h)[1] # Elems(h)[2]

\* C10: a call that fails with IndexError or ValueError leaves every node's
\* item and next, every handle's first node and every cached length as they
\* were.
C10_FailureChangesNothing ==
  [][last'.status \in Errors => HeapUnchanged]_vars

\* remove of an absent item has failed on a list of three elements
C10_Witness ==
  /\ last.op = "remove" /\ last.status = "ValueError"
  /\ \E h \in Handles : Len(Elems(h)) = 3

\* C11: L.insert(0, x) followed at once by L.pop(0): the pop succeeds,
\* returns x and leaves L with the length and the elements it had before the
\* insert.
C11_InsertThenPopRestores ==
  [][\A h \in Handles, x \in Items :
       (last'.op = "insert" /\ insert(h, 0, x)) =>
         /\ ~(PopFails(h, 0))'
         /\ (PopItem(h, 0))' = x
         /\ (to_list(item, PopLinks(h, 0), PopHead(h, 0)))' = Elems(h)
         /\ (length[h] - 1)' = length[h]]_vars

\* insert(0, x) has just put the only element into a list
C11_Witness ==
  /\ last.op = "insert" /\ last.status = "ok"
  /\ \E h \in Handles : Len(Elems(h)) = 1 /\ length[h] = 1

Reverse(s) == [k \in 1..Len(s) |-> s[Len(s) + 1 - k]]
LiveNodes == Cardinality(Reach(next, Roots(first)))

\* C12: one invert() makes the elements of L the reverse of what they were,
\* adds no node and keeps len(L); the invert() that follows it gives back
\* the original order.
C12_InvertReverses ==
  [][\A h \in Handles :
       (last'.op = "invert" /\ invert(h)) =>
         /\ ElemsAfter(h) = Reverse(Elems(h))
         /\ LiveNodes' = LiveNodes
         /\ length' = length
         /\ LET r == InvertWalk(next', first'[h], Nil)
            IN to_list(item', r.next, r.first) = Elems(h)]_vars

\* invert() has run on a list of three elements whose ends differ
C12_Witness ==
  /\ last.op = "invert"
  /\ \E h \in Handles : Len(Elems(h)) = 3 /\ Elems(h)[1] # Elems(h)[3]

\* C13: LinkedList(seq).to_list() is seq, element for element, and
\* len(LinkedList(seq)) is the size of seq, the empty sequence included.
C13_ConstructRoundTrip ==
  [][\A h \in Handles, seq \in SeqsUpTo(MaxNodes) :
       (last'.op = "init" /\ Construct(h, seq)) =>
         /\ ElemsAfter(h) = seq
         /\ length'[h] = Len(seq)]_vars

\* a list has just been built from a sequence of three items whose ends
\* differ
C13_Witness ==
  /\ last.op = "init"
  /\ \E h \in Handles : /\ Len(Elems(h)) = 3 /\ length[h] = 3
                        /\ Elems(h)[1] # Elems(h)[3]

Occurrences(s, x) == Cardinality({k \in 1..Len(s) : s[k] = x})
IsPermutation(s, t) ==
  Len(s) = Len(t) /\ \A x \in Range(s) \cup Range(t) : Occurrences(s, x) = Occurrences(t, x)
Ordered(s, reverse) ==
  \A k \in 1..(Len(s) - 1) : IF reverse THEN s[k] >= s[k + 1] ELSE s[k] <= s[k + 1]

\* C14: L.sort() leaves a permutation of L's elements in non-decreasing
\* order, L.sort(reverse=True) the permutation in non-increasing order, and
\* neither changes len(L); [3, 1, 2] sorts to [1, 2, 3] and to [3, 2, 1].
C14_SortOrdersElements ==
  [][\A h \in Handles, reverse \in BOOLEAN :
       (last'.op = "sort" /\ sort(h, reverse)) =>
         /\ IsPermutation(ElemsAfter(h), Elems(h))
         /\ Ordered(ElemsAfter(h), reverse)
         /\ length' = length
         /\ SortedList(<<3, 1, 2>>, FALSE) = <<1, 2, 3>>
         /\ SortedList(<<3, 1, 2>>, TRUE) = <<3, 2, 1>>]_vars

\* a sort has left a list of three elements in strictly falling order at
\* its front
C14_Witness ==
  /\ last.op = "sort"
  /\ \E h \in Handles : Len(Elems(h)) = 3 /\ Elems(h)[1] > Elems(h)[3]

\* what the iterator has yet to yield, before and after a step
Remaining == to_list(item, next, iter.curr)
RemainingAfter == to_list(item', next', iter'.curr)

\* C15: each next() returns the item of the node the cursor is on and moves
\* the cursor to that node's successor; once a next() has raised
\* StopIteration, every later next() on that iterator raises it too,
\* whatever operations on the list come between the calls.
C15_IteratorAdvancesAndStaysSpent ==
  [][(last'.op = "next" /\ iter_next) =>
       /\ iter.curr # Nil =>
            /\ last'.status = "ok"
            /\ last'.ret = item[iter.curr]
            /\ RemainingAfter = to_list(item, next, next[iter.curr])
       /\ iter.stops > 0 => last'.status = "StopIteration" /\ RemainingAfter = << >>]_vars

\* a second StopIteration from an iterator whose list holds elements again
C15_Witness ==
  /\ last.op = "next" /\ last.status = "StopIteration"
  /\ iter.stops = 2
  /\ Elems(HandleOrder[1]) # << >>

Shorter(s, t) == IF Len(s) <= Len(t) THEN Len(s) ELSE Len(t)

\* C16: a == b is true exactly when the items of a and b are equal at every
\* position below the smaller of their numbers of elements, so a list
\* compares equal to any list it is a prefix of.
C16_EqComparesCommonPrefix ==
  [][\A h1 \in Handles, h2 \in Handles :
       (last'.op = "eq" /\ eq(h1, h2)) =>
         /\ last'.ret \in {0, 1}
         /\ last'.ret = 1 <=>
              \A k \in 1..Shorter(Elems(h1), Elems(h2)) : Elems(h1)[k] = Elems(h2)[k]
         /\ HeapUnchanged]_vars

\* a comparison came out true with two non-empty lists of different sizes
C16_Witness ==
  /\ last.op = "eq" /\ last.ret = 1
  /\ \E h1 \in Handles, h2 \in Handles :
       /\ Elems(h1) # << >>
       /\ Len(Elems(h1)) < Len(Elems(h2))
       /\ first[h1] # first[h2]

\* the walk from n along next meets the terminal marker
EndsFrom(n) == Len(ChainFrom(next, n, MaxNodes + 1)) <= MaxNodes

Shares(h, g) ==
  LET c == Chain(next, first[h])
      d == Chain(next, first[g])
  IN \E j \in 1..Len(c), k \in 1..Len(d) : c[j] = d[k]

\* C17: in every reachable state, whatever operations were applied through
\* whichever handles, shared nodes or not, following next from any node
\* reaches the terminal marker: the node graph has no cycle.
C17_NoCycle ==
  \A n \in Nodes : EndsFrom(n)

\* an invert has just run on a list of several nodes while another handle
\* starts further down the same nodes
C17_Witness ==
  /\ last.op = "invert"
  /\ \E h \in Handles, g \in Handles :
       /\ Shares(h, g)
       /\ first[h] # first[g]
       /\ Len(Elems(h)) = 3
       /\ Len(Elems(g)) = 2

\* C18: every call self.extend(other) and self + other returns, its loop
\* having done exactly as many appends as other held elements when the call
\* started, other being self or a copy of self included.
C18_ExtendAddTerminate ==
  [][\A self \in Handles, other \in Handles :
       (/\ last'.op \in {"extend", "add"}
        /\ extend(self, other) \/ \E dst \in Handles : add(dst, self, other)) =>
         /\ Returned
         /\ CopyAndLoop(self, other).curr = Nil
         /\ CopyAndLoop(self, other).length = Len(Elems(other))]_vars

\* C19: a handle made by LinkedList(seq) and changed only by append, insert,
\* pop, remove, set, invert and sort on itself has, in every reachable
\* state, a cached length equal to the number of nodes reachable from its
\* first node, hence never a negative one.
C19_SoloLengthIsNodeCount ==
  \A h \in Handles : length[h] = Len(Chain(next, first[h])) /\ length[h] >= 0

\* a pop has just taken an element off a list that still holds two
C19_Witness ==
  /\ last.op = "pop" /\ last.status = "ok"
  /\ \E h \in Handles : length[h] = 2 /\ Len(Elems(h)) = 2

\* the step is a call on h's list, with g's list at most as its argument
CallOn(h, g) ==
  \/ last'.op \in {"get", "index", "eq"}
  \/ last'.op = "append" /\ \E x \in Items : append(h, x)
  \/ last'.op = "set" /\ \E i \in Indices, x \in Items : setitem(h, i, x)
  \/ last'.op = "insert" /\ \E i \in Indices, x \in Items : insert(h, i, x)
  \/ last'.op = "pop" /\ \E i \in Indices : pop(h, i)
  \/ last'.op = "remove" /\ \E x \in Items : remove(h, x)
  \/ last'.op = "invert" /\ invert(h)
  \/ last'.op = "sort" /\ \E reverse \in BOOLEAN : sort(h, reverse)
  \/ last'.op = "copy" /\ copy(h, h)
  \/ last'.op = "extend" /\ \E other \in {h, g} : extend(h, other)
  \/ last'.op = "add" /\ \E other \in {h, g} : add(h, h, other)

\* the step binds h or g to the list a copy() or a + returns
BoundToCopyOrSum(h, g) ==
  \E dst \in {h, g}, self \in Handles :
    \/ last'.op = "copy" /\ copy(dst, self)
    \/ last'.op = "add" /\ \E other \in Handles : add(dst, self, other)

\* C20: two handles come to share a node only when one of them is bound to
\* the result of copy() or of +; extend, + and sort put the argument's items
\* into fresh nodes, so of two lists that share no node a call on one,
\* the other being its argument or not, leaves the other's elements and
\* length as they were and the two lists apart.
C20_SharingOnlyByCopyOrAdd ==
  [][\A h \in Handles, g \in Handles :
       (h # g /\ ~Shares(h, g)) =>
         /\ (Shares(h, g))' => BoundToCopyOrSum(h, g)
         /\ \/ /\ ElemsAfter(g) = Elems(g)
               /\ length'[g] = length[g]
               /\ ~(Shares(h, g))'
            \/ ~CallOn(h, g)]_vars

\* an extend has just returned on a list that took two elements from another
\* list, which it shares nothing with
C20_Witness ==
  /\ last.op = "extend" /\ last.status = "ok"
  /\ \E h \in Handles, g \in Handles :
       /\ ~Shares(h, g)
       /\ Len(Elems(g)) = 1
       /\ Len(Elems(h)) = 2
       /\ Elems(h)[2] = Elems(g)[1]
       /\ Elems(h)[1] # Elems(g)[1]
====
